---------------------------- MODULE Spec2Model ----------------------------
(***************************************************************************)
(* A model of the consistent-hash ring of src/consistent_hash.go.          *)
(*                                                                         *)
(* The ring is one ConsistentHash value built by                           *)
(* NewConsistentWithCustomHash(h).  Its state is the three fields          *)
(* hashSortedNodes (the Position Index), circle (the Position Map) and     *)
(* nodes (the Node Registry); the hash function is fixed at construction.  *)
(* Every exported method runs wholly under the ring's RWMutex (Lock/RLock  *)
(* with a deferred unlock as the first statements), so each call is one    *)
(* atomic action.                                                          *)
(*                                                                         *)
(* call and ret record the last call and what it returned, before the     *)
(* ring as it was when that call began, and undone the ring as it was      *)
(* before a successful Add that the last call, a successful Remove of the  *)
(* same node, directly followed.                                           *)
(*                                                                         *)
(* The callers use the node keys "a", "b", "c", replica counts up to       *)
(* MaxVirtual and a hash function with HashMod values, so that collisions, *)
(* exhausted retries and a full ring all occur.                            *)
(*                                                                         *)
(* Strings are sequences of one-character strings.  Maps are functions     *)
(* whose DOMAIN is the set of keys present; a nil map and an empty map     *)
(* both have the empty domain; a nil slice and an empty slice are <<>>.    *)
(* Slice indices are Go's, counted from 0.                                 *)
(***************************************************************************)
EXTENDS Integers, Sequences, FiniteSets

VARIABLES hashSortedNodes, circle, nodes, call, ret, before, undone,
          mu, callers, committed

ring == <<hashSortedNodes, circle, nodes>>
history == <<call, ret, before, undone>>
lockVars == <<mu, callers, committed>>
vars == <<hashSortedNodes, circle, nodes, call, ret, before, undone,
          mu, callers, committed>>

(***************************************************************************)
(* Bounds of the model.                                                    *)
(***************************************************************************)
MaxVirtual == 2      \* largest virtualNodeCount passed to AddWithVirtualNode
HashMod == 4         \* the custom hash function maps into 0 .. HashMod-1
SetupCalls == 2      \* calls made before the concurrent callers start

(***************************************************************************)
(* Program constants.                                                      *)
(***************************************************************************)
\* Mutant: a fourth candidate is tried.
RetriesFour == 3 + 1

Retries == 3         \* for j := 0; j < 3; j++

NIL == [nil |-> TRUE]            \* the nil Node interface value
NoError == "nil"                 \* the nil error
NoKey == -1                      \* virtualKey == nil: no free candidate found
EmptyString == <<>>              \* the zero value of string

ErrNodeNil == "node is nil"
ErrCount == "virtualNodeCount can't less 1"
ErrExists == "node already exised"
ErrCollision == "node hash collision"
ErrNotExist == "node not exist"
ErrEmpty == "node size is 0"
Panic == "panic"

(***************************************************************************)
(* Characters and strings.                                                 *)
(***************************************************************************)
Letters == <<"a", "b", "c">>
Digits == <<"0", "1", "2", "3", "4", "5", "6", "7", "8", "9">>

\* The byte value of a character.
ByteOf ==
    [ch \in {Digits[d] : d \in 1..Len(Digits)} \cup
            {Letters[l] : l \in 1..Len(Letters)} |->
        IF \E d \in 1..Len(Digits) : Digits[d] = ch
        THEN 47 + (CHOOSE d \in 1..Len(Digits) : Digits[d] = ch)
        ELSE 96 + (CHOOSE l \in 1..Len(Letters) : Letters[l] = ch)]

\* strconv.Itoa for n >= 0: the decimal digits of n, most significant first.
RECURSIVE Itoa(_)
Itoa(n) ==
    IF n < 10 THEN <<Digits[n + 1]>>
    ELSE Itoa(n \div 10) \o <<Digits[(n % 10) + 1]>>

\* The keys of the nodes callers use, and the Node values holding them.
NodeKeys == { <<Letters[i]>> : i \in 1..Len(Letters) }
Nodes == { [key |-> k] : k \in NodeKeys }
Key(node) == node.key

\* The keys callers resolve: one per hash value.
LookupKeys == { <<Digits[i]>> : i \in 1..HashMod }

(***************************************************************************)
(* The hash function handed to NewConsistentWithCustomHash: the sum of the *)
(* bytes of the key, reduced into 0 .. HashMod-1.  The sum stays far below *)
(* 2^32, so the uint32 width of the result never truncates it.  The ring  *)
(* keeps the function it was built with; hashKey calls it.                 *)
(***************************************************************************)
RECURSIVE ByteSum(_)
ByteSum(s) ==
    IF s = <<>> THEN 0 ELSE ByteOf[Head(s)] + ByteSum(Tail(s))

hash(key) == ByteSum(key) % HashMod

hashKey(key) == hash(key)

\* The candidate string of replica i, attempt j.
virtualKeyString(node, i, j) == Key(node) \o Itoa(i) \o Itoa(j)

(***************************************************************************)
(* Slices and maps.                                                        *)
(***************************************************************************)
At(s, i) == s[i + 1]                                  \* s[i]
SliceTo(s, i) == SubSeq(s, 1, i)                      \* s[:i]
SliceFrom(s, i) == SubSeq(s, i + 1, Len(s))           \* s[i:]
Range(s) == { s[i] : i \in 1..Len(s) }

Has(m, k) == k \in DOMAIN m                           \* _, ok := m[k]
Put(m, k, v) == [x \in DOMAIN m \cup {k} |-> IF x = k THEN v ELSE m[x]]
Delete(m, k) == [x \in DOMAIN m \ {k} |-> m[x]]
EmptyMap == [x \in {} |-> NIL]

\* sort.Search(n, f) with f(i) = (s[i] >= x): the binary search of the Go
\* library, returning the least i in [lo, hi] for which f holds on [i, hi).
RECURSIVE SearchLoop(_, _, _, _)
SearchLoop(s, x, lo, hi) ==
    IF lo < hi
    THEN LET mid == (lo + hi) \div 2
         IN  IF ~(At(s, mid) >= x)
             THEN SearchLoop(s, x, mid + 1, hi)
             ELSE SearchLoop(s, x, lo, mid)
    ELSE lo

Search(s, x) == SearchLoop(s, x, 0, Len(s))

\* sort.Slice(s, less) with less = "<": s in ascending order.
RECURSIVE Insert(_, _)
Insert(s, x) ==
    IF s = <<>> THEN <<x>>
    ELSE IF x < Head(s) THEN <<x>> \o s
    ELSE <<Head(s)>> \o Insert(Tail(s), x)

\* Mutant: the index is left in append order.
SortSliceSkipped(s) == s

RECURSIVE SortSlice(_)
SortSlice(s) ==
    IF s = <<>> THEN <<>>
    ELSE Insert(SortSlice(Tail(s)), Head(s))

(***************************************************************************)
(* getPosition and GetNode.                                                *)
(***************************************************************************)
\* Mutant: the else branch returns len(hs) instead of len(hs) - 1.
getPositionPastEnd(hs, h) ==
    LET i == Search(hs, h)
    IN  IF i < Len(hs)
        THEN IF i = Len(hs) - 1 THEN 0 ELSE i
        ELSE Len(hs)

\* Mutant: a match at the last index is used as it is.
getPositionNoTieBreak(hs, h) ==
    LET i == Search(hs, h)
    IN  IF i < Len(hs) THEN i ELSE Len(hs) - 1

getPosition(hs, h) ==
    LET i == Search(hs, h)
    IN  IF i < Len(hs)
        THEN IF i = Len(hs) - 1 THEN 0 ELSE i
        ELSE Len(hs) - 1

\* m[k] of a map: the zero value when k is absent.
circleAt(circ, p) == IF Has(circ, p) THEN circ[p] ELSE EmptyString
nodesAt(ns, k) ==
    IF Has(ns, k) THEN ns[k] ELSE [node |-> NIL, virtualNodes |-> <<>>]

\* Mutant: the emptiness test reads circle instead of nodes.
sizeIsZeroOfCircle(circ, ns) == Cardinality(DOMAIN circ) = 0

\* len(c.nodes) == 0
sizeIsZero(circ, ns) == Cardinality(DOMAIN ns) = 0

\* The keys of a map in ascending order.
RECURSIVE SortedKeys(_)
SortedKeys(S) ==
    IF S = {} THEN <<>>
    ELSE LET least == CHOOSE x \in S : \A y \in S : x <= y
         IN  <<least>> \o SortedKeys(S \ {least})

\* Mutant: the lookup searches the keys of circle instead of
\* hashSortedNodes.
GetNodeResultFromCircle(hs, circ, ns, key) ==
    IF sizeIsZero(circ, ns)
    THEN [node |-> NIL, err |-> ErrEmpty]
    ELSE LET ps == SortedKeys(DOMAIN circ)
             i == getPosition(ps, hashKey(key))
         IN  IF i < 0 \/ i >= Len(ps)
             THEN [node |-> NIL, err |-> Panic]
             ELSE [node |-> nodesAt(ns, circleAt(circ, At(ps, i))).node,
                   err |-> NoError]

\* The (Node, error) pair GetNode returns; an index outside the slice panics.
GetNodeResult(hs, circ, ns, key) ==
    IF sizeIsZero(circ, ns)
    THEN [node |-> NIL, err |-> ErrEmpty]
    ELSE LET i == getPosition(hs, hashKey(key))
         IN  IF i < 0 \/ i >= Len(hs)
             THEN [node |-> NIL, err |-> Panic]
             ELSE [node |-> nodesAt(ns, circleAt(circ, At(hs, i))).node,
                   err |-> NoError]

(***************************************************************************)
(* AddWithVirtualNode.                                                     *)
(***************************************************************************)
\* The inner loop over j: the first candidate of replica i that is not a key
\* of circle, or NoKey when all Retries candidates are.
RECURSIVE tryCandidates(_, _, _, _)
tryCandidates(circ, node, i, j) ==
    IF j < Retries
    THEN LET k == hashKey(virtualKeyString(node, i, j))
         IN  IF ~Has(circ, k) THEN k
             ELSE tryCandidates(circ, node, i, j + 1)
    ELSE NoKey

\* Mutant: the candidates are tested against circle as it was before the
\* call, and circle is written only when every replica has a position.
RECURSIVE placeReplicasUnseen(_, _, _, _, _)
placeReplicasUnseen(circ, node, virtualNodeCount, i, virtualNodes) ==
    IF i < virtualNodeCount
    THEN LET virtualKey == tryCandidates(circ, node, i, 0)
         IN  IF virtualKey = NoKey
             THEN [collision |-> TRUE, circle |-> circ,
                   virtualNodes |-> virtualNodes]
             ELSE LET rest == placeReplicasUnseen(circ, node,
                                  virtualNodeCount, i + 1,
                                  Append(virtualNodes, virtualKey))
                  IN  [collision |-> rest.collision,
                       circle |-> IF rest.collision THEN circ
                                  ELSE Put(rest.circle, virtualKey, Key(node)),
                       virtualNodes |-> rest.virtualNodes]
    ELSE [collision |-> FALSE, circle |-> circ, virtualNodes |-> virtualNodes]

\* The outer loop over i.  circle is written as each replica is placed; the
\* loop returns early, with what it has written so far, on a collision.
RECURSIVE placeReplicas(_, _, _, _, _)
placeReplicas(circ, node, virtualNodeCount, i, virtualNodes) ==
    IF i < virtualNodeCount
    THEN LET virtualKey == tryCandidates(circ, node, i, 0)
         IN  IF virtualKey = NoKey
             THEN [collision |-> TRUE, circle |-> circ,
                   virtualNodes |-> virtualNodes]
             ELSE placeReplicas(Put(circ, virtualKey, Key(node)), node,
                                virtualNodeCount, i + 1,
                                Append(virtualNodes, virtualKey))
    ELSE [collision |-> FALSE, circle |-> circ, virtualNodes |-> virtualNodes]

\* Mutant: a count of 0 is let through.
countLessThanZero(virtualNodeCount) == virtualNodeCount < 0

\* virtualNodeCount < 1
countLessThanOne(virtualNodeCount) == virtualNodeCount < 1

\* Mutant: the duplicate check never finds the key.
nodeExistsNever(ns, node) == FALSE

\* _, ok := c.nodes[node.Key()]
nodeExists(ns, node) == Has(ns, Key(node))

\* Mutant: the positions placed before a collision are appended to
\* hashSortedNodes as well.
AddWithVirtualNodeResultEagerIndex(hs, circ, ns, node, virtualNodeCount) ==
    IF node = NIL
    THEN [hashSortedNodes |-> hs, circle |-> circ, nodes |-> ns,
          err |-> ErrNodeNil]
    ELSE IF countLessThanOne(virtualNodeCount)
    THEN [hashSortedNodes |-> hs, circle |-> circ, nodes |-> ns,
          err |-> ErrCount]
    ELSE IF nodeExists(ns, node)
    THEN [hashSortedNodes |-> hs, circle |-> circ, nodes |-> ns,
          err |-> ErrExists]
    ELSE LET placed == placeReplicas(circ, node, virtualNodeCount, 0, <<>>)
         IN  [hashSortedNodes |-> SortSlice(hs \o placed.virtualNodes),
              circle |-> placed.circle,
              nodes |-> IF placed.collision THEN ns
                        ELSE Put(ns, Key(node),
                                 [node |-> node,
                                  virtualNodes |-> placed.virtualNodes]),
              err |-> IF placed.collision THEN ErrCollision ELSE NoError]

\* The ring after AddWithVirtualNode(node, virtualNodeCount) and its error.
AddWithVirtualNodeResult(hs, circ, ns, node, virtualNodeCount) ==
    IF node = NIL
    THEN [hashSortedNodes |-> hs, circle |-> circ, nodes |-> ns,
          err |-> ErrNodeNil]
    ELSE IF countLessThanOne(virtualNodeCount)
    THEN [hashSortedNodes |-> hs, circle |-> circ, nodes |-> ns,
          err |-> ErrCount]
    ELSE IF nodeExists(ns, node)
    THEN [hashSortedNodes |-> hs, circle |-> circ, nodes |-> ns,
          err |-> ErrExists]
    ELSE LET placed == placeReplicas(circ, node, virtualNodeCount, 0, <<>>)
         IN  IF placed.collision
             THEN [hashSortedNodes |-> hs, circle |-> placed.circle,
                   nodes |-> ns, err |-> ErrCollision]
             ELSE [hashSortedNodes |->
                       SortSlice(hs \o placed.virtualNodes),
                   circle |-> placed.circle,
                   nodes |-> Put(ns, Key(node),
                                 [node |-> node,
                                  virtualNodes |-> placed.virtualNodes]),
                   err |-> NoError]

\* Add(node) = AddWithVirtualNode(node, 1).
AddResult(hs, circ, ns, node) ==
    AddWithVirtualNodeResult(hs, circ, ns, node, 1)

(***************************************************************************)
(* Remove.                                                                 *)
(***************************************************************************)
\* Mutant: the positions are left in circle.
deleteAllSkipped(circ, virtualNodes) == circ

\* for _, v := range virtualNodes { delete(c.circle, v) }
RECURSIVE deleteAll(_, _)
deleteAll(circ, virtualNodes) ==
    IF virtualNodes = <<>> THEN circ
    ELSE deleteAll(Delete(circ, Head(virtualNodes)), Tail(virtualNodes))

\* The binary-search deletion loop.  hs[i+1:] panics when i = len(hs).
RECURSIVE removePositions(_, _)
removePositions(hs, virtualNodes) ==
    IF virtualNodes = <<>> THEN [hashSortedNodes |-> hs, panic |-> FALSE]
    ELSE LET i == Search(hs, Head(virtualNodes))
         IN  IF i + 1 > Len(hs)
             THEN [hashSortedNodes |-> hs, panic |-> TRUE]
             ELSE removePositions(SliceTo(hs, i) \o SliceFrom(hs, i + 1),
                                  Tail(virtualNodes))

\* Mutant: the registry lookup's ok is not tested, so an absent key yields
\* the zero consistentNode and the call returns nil.
RemoveResultUnchecked(hs, circ, ns, node) ==
    IF node = NIL
    THEN [hashSortedNodes |-> hs, circle |-> circ, nodes |-> ns,
          err |-> Panic]
    ELSE LET cNode == nodesAt(ns, Key(node))
             removed == removePositions(hs, cNode.virtualNodes)
         IN  [hashSortedNodes |-> removed.hashSortedNodes,
              circle |-> deleteAll(circ, cNode.virtualNodes),
              nodes |-> Delete(ns, Key(node)),
              err |-> IF removed.panic THEN Panic ELSE NoError]

\* The ring after Remove(node) and its error.  node.Key() on a nil Node
\* panics before anything is changed.
RemoveResult(hs, circ, ns, node) ==
    IF node = NIL
    THEN [hashSortedNodes |-> hs, circle |-> circ, nodes |-> ns,
          err |-> Panic]
    ELSE IF ~Has(ns, Key(node))
    THEN [hashSortedNodes |-> hs, circle |-> circ, nodes |-> ns,
          err |-> ErrNotExist]
    ELSE LET cNode == ns[Key(node)]
             removed == removePositions(hs, cNode.virtualNodes)
         IN  [hashSortedNodes |-> removed.hashSortedNodes,
              circle |-> deleteAll(circ, cNode.virtualNodes),
              nodes |-> Delete(ns, Key(node)),
              err |-> IF removed.panic THEN Panic ELSE NoError]

(***************************************************************************)
(* The calls.                                                              *)
(***************************************************************************)
NoNode == [node |-> NIL, err |-> NoError]
NotUndone == [taken |-> FALSE]
Ring == [hashSortedNodes |-> hashSortedNodes, circle |-> circle,
         nodes |-> nodes]
RingOf(r) == [hashSortedNodes |-> r.hashSortedNodes, circle |-> r.circle,
              nodes |-> r.nodes]
IsAdd(c) == c.op \in {"Add", "AddWithVirtualNode"}

\* The goroutines that call the ring concurrently, each making one call.
Callers == {1, 2}
NoCaller == 0
\* The RWMutex: w is the writer that holds or waits for the lock, readers
\* the callers that hold the read lock.
Unlocked == [w |-> NoCaller, readers |-> {}]
\* A caller that has not called yet.
Idle == [pc |-> "idle", op |-> "none", node |-> NIL, count |-> 0,
         key |-> EmptyString, virtualNodes |-> <<>>, i |-> 0, ret |-> NoNode]
EmptyRing == [hashSortedNodes |-> <<>>, circle |-> EmptyMap,
              nodes |-> EmptyMap]
InitLock ==
    /\ mu = Unlocked
    /\ callers = [p \in Callers |-> Idle]

Init ==
    /\ hashSortedNodes = <<>>
    /\ circle = EmptyMap
    /\ nodes = EmptyMap
    /\ call = [op |-> "New", node |-> NIL, count |-> 0, key |-> EmptyString]
    /\ ret = NoNode
    /\ before = [hashSortedNodes |-> <<>>, circle |-> EmptyMap,
                 nodes |-> EmptyMap]
    /\ undone = NotUndone
    /\ InitLock
    /\ committed = EmptyRing

Add ==
    \E node \in Nodes \cup {NIL} :
        \E r \in {AddResult(hashSortedNodes, circle, nodes, node)} :
            /\ hashSortedNodes' = r.hashSortedNodes
            /\ circle' = r.circle
            /\ nodes' = r.nodes
            /\ call' = [op |-> "Add", node |-> node, count |-> 1,
                        key |-> EmptyString]
            /\ ret' = [node |-> NIL, err |-> r.err]
            /\ before' = Ring
            /\ undone' = NotUndone
            /\ UNCHANGED lockVars

AddWithVirtualNode ==
    \E node \in Nodes \cup {NIL}, virtualNodeCount \in 0..MaxVirtual :
        \E r \in {AddWithVirtualNodeResult(hashSortedNodes, circle, nodes,
                                          node, virtualNodeCount)} :
            /\ hashSortedNodes' = r.hashSortedNodes
            /\ circle' = r.circle
            /\ nodes' = r.nodes
            /\ call' = [op |-> "AddWithVirtualNode", node |-> node,
                        count |-> virtualNodeCount, key |-> EmptyString]
            /\ ret' = [node |-> NIL, err |-> r.err]
            /\ before' = Ring
            /\ undone' = NotUndone
            /\ UNCHANGED lockVars

Remove ==
    \E node \in Nodes \cup {NIL} :
        \E r \in {RemoveResult(hashSortedNodes, circle, nodes, node)} :
            /\ hashSortedNodes' = r.hashSortedNodes
            /\ circle' = r.circle
            /\ nodes' = r.nodes
            /\ call' = [op |-> "Remove", node |-> node, count |-> 0,
                        key |-> EmptyString]
            /\ ret' = [node |-> NIL, err |-> r.err]
            /\ before' = Ring
            /\ undone' =
                   IF /\ r.err = NoError
                      /\ IsAdd(call) /\ ret.err = NoError
                      /\ call.node = node
                   THEN [taken |-> TRUE, ring |-> before,
                         count |-> call.count]
                   ELSE NotUndone
            /\ UNCHANGED lockVars

GetNode ==
    \E key \in LookupKeys :
        /\ call' = [op |-> "GetNode", node |-> NIL, count |-> 0, key |-> key]
        /\ ret' = GetNodeResult(hashSortedNodes, circle, nodes, key)
        /\ before' = Ring
        /\ undone' = NotUndone
        /\ UNCHANGED <<hashSortedNodes, circle, nodes>>
        /\ UNCHANGED lockVars

Next == Add \/ AddWithVirtualNode \/ Remove \/ GetNode

Spec == Init /\ [][Next]_vars

(***************************************************************************)
(* The calls of concurrent callers, statement by statement under the       *)
(* RWMutex.  committed is the ring as the calls that have released the     *)
(* write lock left it.                                                     *)
(***************************************************************************)
\* The rings a single goroutine can build with n AddWithVirtualNode calls
\* before the concurrent callers start.
RECURSIVE RingsAfter(_)
RingsAfter(n) ==
    IF n = 0 THEN {EmptyRing}
    ELSE LET earlier == RingsAfter(n - 1)
         IN  earlier \cup
             { RingOf(AddWithVirtualNodeResult(r.hashSortedNodes, r.circle,
                                               r.nodes, node, count)) :
                 r \in earlier, node \in Nodes, count \in 1..MaxVirtual }

InitCallers ==
    /\ \E r \in RingsAfter(SetupCalls) :
          /\ hashSortedNodes = r.hashSortedNodes
          /\ circle = r.circle
          /\ nodes = r.nodes
          /\ committed = r
    /\ call = [op |-> "New", node |-> NIL, count |-> 0, key |-> EmptyString]
    /\ ret = NoNode
    /\ before = EmptyRing
    /\ undone = NotUndone
    /\ InitLock

\* Mutant: RLock does not wait for a writer.
canRLockAlways(m) == TRUE

\* RLock blocks while a writer holds or waits for the lock.
canRLock(m) == m.w = NoCaller

\* Mutant: Lock does not wait for the readers to leave.
readersDrainedAlways(m) == TRUE

\* Lock, once it has the writer mutex, waits until no reader holds the lock.
readersDrained(m) == m.readers = {}

\* Mutant: the unlock is not deferred and is skipped by the error returns.
deferredOnSuccess(unlock, r) == IF r.err = NoError THEN unlock ELSE "done"

\* defer c.Unlock() / defer c.RUnlock(): every return runs the unlock.
deferred(unlock, r) == unlock

Error(e) == [node |-> NIL, err |-> e]
At_(p, pc) == callers[p].pc = pc
\* A caller whose call has returned keeps the error it got.
Returned(c) == [Idle EXCEPT !.pc = "done", !.ret = Error(c.ret.err)]

\* Add(node) is AddWithVirtualNode(node, 1).
CallAdd(p) ==
    /\ At_(p, "idle")
    /\ \E node \in Nodes \cup {NIL} :
          callers' = [callers EXCEPT ![p] =
              IF node = NIL
              THEN Returned([ret |-> Error(ErrNodeNil)])
              ELSE [Idle EXCEPT !.pc = "Lock", !.op = "AddWithVirtualNode",
                                !.node = node, !.count = 1]]
    /\ UNCHANGED <<ring, history, mu, committed>>

CallAddWithVirtualNode(p) ==
    /\ At_(p, "idle")
    /\ \E node \in Nodes \cup {NIL}, virtualNodeCount \in 0..MaxVirtual :
          callers' = [callers EXCEPT ![p] =
              IF node = NIL
              THEN Returned([ret |-> Error(ErrNodeNil)])
              ELSE IF countLessThanOne(virtualNodeCount)
              THEN Returned([ret |-> Error(ErrCount)])
              ELSE [Idle EXCEPT !.pc = "Lock", !.op = "AddWithVirtualNode",
                                !.node = node, !.count = virtualNodeCount]]
    /\ UNCHANGED <<ring, history, mu, committed>>

CallRemove(p) ==
    /\ At_(p, "idle")
    /\ \E node \in Nodes :
          callers' = [callers EXCEPT ![p] =
              [Idle EXCEPT !.pc = "Lock", !.op = "Remove", !.node = node]]
    /\ UNCHANGED <<ring, history, mu, committed>>

CallGetNode(p) ==
    /\ At_(p, "idle")
    /\ \E key \in LookupKeys :
          callers' = [callers EXCEPT ![p] =
              [Idle EXCEPT !.pc = "RLock", !.op = "GetNode", !.key = key]]
    /\ UNCHANGED <<ring, history, mu, committed>>

\* c.Lock(): take the writer mutex, then wait for the readers.
Lock(p) ==
    /\ At_(p, "Lock")
    /\ mu.w = NoCaller
    /\ mu' = [mu EXCEPT !.w = p]
    /\ callers' = [callers EXCEPT ![p].pc = "Drain"]
    /\ UNCHANGED <<ring, history, committed>>

LockDrain(p) ==
    /\ At_(p, "Drain")
    /\ readersDrained(mu)
    /\ callers' = [callers EXCEPT ![p].pc =
                      IF callers[p].op = "Remove" THEN "Lookup" ELSE "Exists"]
    /\ UNCHANGED <<ring, history, mu, committed>>

\* if _, ok := c.nodes[node.Key()]; ok { return errors.New(...) }
AddExists(p) ==
    /\ At_(p, "Exists")
    /\ callers' = [callers EXCEPT ![p] =
          IF nodeExists(nodes, callers[p].node)
          THEN [@ EXCEPT !.ret = Error(ErrExists),
                         !.pc = deferred("Unlock", Error(ErrExists))]
          ELSE [@ EXCEPT !.pc = "Place"]]
    /\ UNCHANGED <<ring, history, mu, committed>>

\* The replica loop, writing circle as it goes.
AddPlace(p) ==
    /\ At_(p, "Place")
    /\ \E placed \in {placeReplicas(circle, callers[p].node,
                                   callers[p].count, 0, <<>>)} :
          /\ circle' = placed.circle
          /\ callers' = [callers EXCEPT ![p] =
                IF placed.collision
                THEN [@ EXCEPT !.ret = Error(ErrCollision),
                               !.pc = deferred("Unlock", Error(ErrCollision))]
                ELSE [@ EXCEPT !.virtualNodes = placed.virtualNodes,
                               !.pc = "Append"]]
    /\ UNCHANGED <<hashSortedNodes, nodes, history, mu, committed>>

\* c.hashSortedNodes = append(c.hashSortedNodes, virtualNodes...)
AddAppend(p) ==
    /\ At_(p, "Append")
    /\ hashSortedNodes' = hashSortedNodes \o callers[p].virtualNodes
    /\ callers' = [callers EXCEPT ![p].pc = "Register"]
    /\ UNCHANGED <<circle, nodes, history, mu, committed>>

\* c.nodes[node.Key()] = consistentNode{...}
AddRegister(p) ==
    /\ At_(p, "Register")
    /\ nodes' = Put(nodes, Key(callers[p].node),
                    [node |-> callers[p].node,
                     virtualNodes |-> callers[p].virtualNodes])
    /\ callers' = [callers EXCEPT ![p].pc = "Sort"]
    /\ UNCHANGED <<hashSortedNodes, circle, history, mu, committed>>

\* sort.Slice(c.hashSortedNodes, ...); return nil
AddSort(p) ==
    /\ At_(p, "Sort")
    /\ hashSortedNodes' = SortSlice(hashSortedNodes)
    /\ callers' = [callers EXCEPT ![p] =
          [@ EXCEPT !.ret = Error(NoError),
                    !.pc = deferred("Unlock", Error(NoError))]]
    /\ UNCHANGED <<circle, nodes, history, mu, committed>>

\* cNode, ok := c.nodes[node.Key()]; delete(c.nodes, node.Key())
RemoveLookup(p) ==
    /\ At_(p, "Lookup")
    /\ IF ~Has(nodes, Key(callers[p].node))
       THEN /\ callers' = [callers EXCEPT ![p] =
                  [@ EXCEPT !.ret = Error(ErrNotExist),
                            !.pc = deferred("Unlock", Error(ErrNotExist))]]
            /\ nodes' = nodes
       ELSE /\ callers' = [callers EXCEPT ![p] =
                  [@ EXCEPT !.virtualNodes =
                                nodes[Key(callers[p].node)].virtualNodes,
                            !.pc = "DeleteCircle"]]
            /\ nodes' = Delete(nodes, Key(callers[p].node))
    /\ UNCHANGED <<hashSortedNodes, circle, history, mu, committed>>

RemoveDeleteCircle(p) ==
    /\ At_(p, "DeleteCircle")
    /\ circle' = deleteAll(circle, callers[p].virtualNodes)
    /\ callers' = [callers EXCEPT ![p].pc = "DeleteIndex"]
    /\ UNCHANGED <<hashSortedNodes, nodes, history, mu, committed>>

RemoveDeleteIndex(p) ==
    /\ At_(p, "DeleteIndex")
    /\ \E removed \in {removePositions(hashSortedNodes,
                                       callers[p].virtualNodes)} :
          /\ hashSortedNodes' = removed.hashSortedNodes
          /\ \E r \in {Error(IF removed.panic THEN Panic ELSE NoError)} :
                callers' = [callers EXCEPT ![p] =
                    [@ EXCEPT !.ret = r, !.pc = deferred("Unlock", r)]]
    /\ UNCHANGED <<circle, nodes, history, mu, committed>>

\* The deferred c.Unlock() and the return.
Unlock(p) ==
    /\ At_(p, "Unlock")
    /\ mu' = [mu EXCEPT !.w = NoCaller]
    /\ committed' = Ring
    /\ callers' = [callers EXCEPT ![p] = Returned(callers[p])]
    /\ UNCHANGED <<ring, history>>

RLock(p) ==
    /\ At_(p, "RLock")
    /\ canRLock(mu)
    /\ mu' = [mu EXCEPT !.readers = @ \cup {p}]
    /\ callers' = [callers EXCEPT ![p].pc = "Size"]
    /\ UNCHANGED <<ring, history, committed>>

\* if len(c.nodes) == 0 { return nil, errors.New("node size is 0") }
GetNodeSize(p) ==
    /\ At_(p, "Size")
    /\ callers' = [callers EXCEPT ![p] =
          IF sizeIsZero(circle, nodes)
          THEN [@ EXCEPT !.ret = Error(ErrEmpty),
                         !.pc = deferred("RUnlock", Error(ErrEmpty))]
          ELSE [@ EXCEPT !.pc = "Position"]]
    /\ UNCHANGED <<ring, history, mu, committed>>

\* hash := c.hashKey(key); i := c.getPosition(hash)
GetNodePosition(p) ==
    /\ At_(p, "Position")
    /\ callers' = [callers EXCEPT ![p] =
          [@ EXCEPT !.i = getPosition(hashSortedNodes,
                                      hashKey(callers[p].key)),
                    !.pc = "Read"]]
    /\ UNCHANGED <<ring, history, mu, committed>>

\* return c.nodes[c.circle[c.hashSortedNodes[i]]].node, nil
GetNodeRead(p) ==
    /\ At_(p, "Read")
    /\ \E r \in {IF callers[p].i < 0 \/ callers[p].i >= Len(hashSortedNodes)
                THEN Error(Panic)
                ELSE [node |-> nodesAt(nodes, circleAt(circle,
                                  At(hashSortedNodes, callers[p].i))).node,
                      err |-> NoError]} :
          callers' = [callers EXCEPT ![p] =
              [@ EXCEPT !.ret = r, !.pc = deferred("RUnlock", r)]]
    /\ UNCHANGED <<ring, history, mu, committed>>

\* The deferred c.RUnlock() and the return.
RUnlock(p) ==
    /\ At_(p, "RUnlock")
    /\ mu' = [mu EXCEPT !.readers = @ \ {p}]
    /\ callers' = [callers EXCEPT ![p] = Returned(callers[p])]
    /\ UNCHANGED <<ring, history, committed>>

\* A step of a call that has begun.
Step(p) ==
    \/ Lock(p) \/ LockDrain(p)
    \/ AddExists(p) \/ AddPlace(p) \/ AddAppend(p) \/ AddRegister(p)
    \/ AddSort(p)
    \/ RemoveLookup(p) \/ RemoveDeleteCircle(p) \/ RemoveDeleteIndex(p)
    \/ Unlock(p)
    \/ RLock(p) \/ GetNodeSize(p) \/ GetNodePosition(p) \/ GetNodeRead(p)
    \/ RUnlock(p)

NextCallers ==
    \E p \in Callers :
        \/ CallAdd(p) \/ CallAddWithVirtualNode(p) \/ CallRemove(p)
        \/ CallGetNode(p)
        \/ Lock(p) \/ LockDrain(p)
        \/ AddExists(p) \/ AddPlace(p) \/ AddAppend(p) \/ AddRegister(p)
        \/ AddSort(p)
        \/ RemoveLookup(p) \/ RemoveDeleteCircle(p) \/ RemoveDeleteIndex(p)
        \/ Unlock(p)
        \/ RLock(p) \/ GetNodeSize(p) \/ GetNodePosition(p)
        \/ GetNodeRead(p)
        \/ RUnlock(p)

SpecLock == InitCallers /\ [][NextCallers]_vars

\* The Go scheduler runs every goroutine that can take a step.
SpecFair == SpecLock /\ \A p \in Callers : WF_vars(Step(p))

(***************************************************************************)
(* Properties.                                                             *)
(***************************************************************************)
Min(S) == CHOOSE x \in S : \A y \in S : x <= y
Registered == DOMAIN nodes
\* What GetNode(key) returns in the current state.
Resolve(key) == GetNodeResult(hashSortedNodes, circle, nodes, key)
\* The positions circle holds for keys that are not registered.
Orphans == { p \in DOMAIN circle : ~Has(nodes, circle[p]) }

\* C1: an Add or AddWithVirtualNode call that returns the hash-collision
\* error leaves hashSortedNodes, circle and nodes as they were before the
\* call.
C1_CollisionLeavesRingUnchanged ==
    (IsAdd(call) /\ ret.err = ErrCollision) => Ring = before

\* C2: a successful Remove(X) changes the owner of no key that a node other
\* than X owned before the call.
C2_MinimalDisruption ==
    (call.op = "Remove" /\ ret.err = NoError)
        => \A k \in LookupKeys :
              LET owner == GetNodeResult(before.hashSortedNodes,
                                         before.circle, before.nodes, k)
              IN  (owner.err = NoError /\ owner.node # call.node)
                      => Resolve(k) = owner

\* C3: whenever the registry is non-empty, GetNode(k) returns for every key
\* k, without error and from an index inside hashSortedNodes, a non-nil node
\* that the registry holds under its key.
C3_Coverage ==
    /\ Registered # {} =>
          \A k \in LookupKeys :
              LET i == getPosition(hashSortedNodes, hashKey(k))
                  r == Resolve(k)
              IN  /\ 0 <= i /\ i < Len(hashSortedNodes)
                  /\ r.err = NoError
                  /\ r.node # NIL
                  /\ Has(nodes, Key(r.node))
                  /\ nodes[Key(r.node)].node = r.node
    /\ call.op = "GetNode" =>
          /\ ret.err # Panic
          /\ ret.err = NoError =>
                (ret.node # NIL /\ Has(nodes, Key(ret.node)))

\* C3 witness: GetNode returned a node while circle still holds a position
\* of a key that is not registered and some node key is not registered.
C3_Witness ==
    /\ call.op = "GetNode" /\ ret.err = NoError
    /\ Orphans # {}
    /\ Registered # NodeKeys

\* C4: when some position of hashSortedNodes is >= hash(k), GetNode(k)
\* returns the node owning the smallest such position.
C4_ClockwiseOwner ==
    \A k \in LookupKeys :
        LET ge == { p \in Range(hashSortedNodes) : p >= hashKey(k) }
        IN  (Registered # {} /\ ge # {})
                => Resolve(k) = [node |-> nodes[circle[Min(ge)]].node,
                                 err |-> NoError]

\* The position section 4.4 prescribes for hash h in the non-empty index P.
RulePosition(P, h) ==
    LET n == Len(P)
        ge == { i \in 0..(n - 1) : At(P, i) >= h }
    IN  IF ge = {} THEN At(P, n - 1)
        ELSE IF Min(ge) < n - 1 THEN At(P, Min(ge))
        ELSE At(P, 0)

\* C5: in a non-empty ring GetNode(k) returns the registered owner of
\* P[i] when the least index i with P[i] >= hash(k) exists and is below
\* n-1, of P[0] when i = n-1, and of P[n-1] when no such index exists.
C5_PositionRule ==
    Registered # {} =>
        /\ Len(hashSortedNodes) >= 1
        /\ \A k \in LookupKeys :
              LET used == RulePosition(hashSortedNodes, hashKey(k))
              IN  /\ Has(circle, used)
                  /\ Has(nodes, circle[used])
                  /\ used \in Range(nodes[circle[used]].virtualNodes)
                  /\ Resolve(k) = [node |-> nodes[circle[used]].node,
                                   err |-> NoError]
        /\ call.op = "GetNode" =>
              ret.node = nodes[circle[RulePosition(hashSortedNodes,
                                                   hashKey(call.key))]].node

\* C5 witness: GetNode was called with a key whose least position >= hash
\* is the last of at least two positions and got the owner of P[0], another
\* node than the owner of that last position; other keys of the same ring
\* fall before the last position and beyond every position.
C5_Witness ==
    LET P == hashSortedNodes
        n == Len(P)
    IN  /\ call.op = "GetNode" /\ ret.err = NoError
        /\ n >= 2
        /\ Search(P, hashKey(call.key)) = n - 1
        /\ ret.node = nodes[circle[At(P, 0)]].node
        /\ ret.node # nodes[circle[At(P, n - 1)]].node
        /\ \E k \in LookupKeys : Search(P, hashKey(k)) < n - 1
        /\ \E k \in LookupKeys : Search(P, hashKey(k)) = n

\* C6: a successful Add or AddWithVirtualNode of node n directly followed by
\* Remove(n) leaves hashSortedNodes, circle and nodes equal to their values
\* before the Add: the Remove succeeds and gives back the ring the Add
\* started from.
C6_AddRemoveInverse ==
    /\ undone.taken => Ring = undone.ring
    /\ (IsAdd(call) /\ ret.err = NoError) =>
          LET r == RemoveResult(hashSortedNodes, circle, nodes, call.node)
          IN  r.err = NoError /\ RingOf(r) = before

\* C6 witness: a node added with MaxVirtual replicas to a ring that held
\* another node and a position of an unregistered key was removed by the
\* next call.
C6_Witness ==
    /\ undone.taken /\ undone.count = MaxVirtual
    /\ call.op = "Remove" /\ ret.err = NoError
    /\ DOMAIN undone.ring.nodes # {}
    /\ Orphans # {}

\* C7: Add or AddWithVirtualNode (count >= 1) of a node whose key is
\* registered returns the duplicate-node error and changes nothing, and
\* only then; an Add succeeds only for a key that was not registered, and a
\* key leaves the registry only by a successful Remove of it.
C7_DuplicateRejected ==
    /\ (IsAdd(call) /\ call.node # NIL /\ call.count >= 1) =>
          /\ Has(before.nodes, Key(call.node)) <=> ret.err = ErrExists
          /\ ret.err = ErrExists =>
                (Ring = before
                 /\ nodes[Key(call.node)] = before.nodes[Key(call.node)])
          /\ ret.err = NoError => ~Has(before.nodes, Key(call.node))
    /\ \A k \in DOMAIN before.nodes \ DOMAIN nodes :
          call.op = "Remove" /\ ret.err = NoError /\ Key(call.node) = k

\* C7 witness: a node registered with one replica was added again with
\* MaxVirtual replicas and the call returned the duplicate-node error.
C7_Witness ==
    /\ call.op = "AddWithVirtualNode" /\ call.count = MaxVirtual
    /\ ret.err = ErrExists
    /\ Len(nodes[Key(call.node)].virtualNodes) = 1

\* C8: GetNode returns the empty-ring error exactly when no node is
\* registered; otherwise it returns a non-nil node and no error.
C8_EmptyRing ==
    /\ \A k \in LookupKeys :
          /\ Resolve(k).err = ErrEmpty <=> Registered = {}
          /\ Registered # {} =>
                (Resolve(k).err = NoError /\ Resolve(k).node # NIL)
    /\ call.op = "GetNode" =>
          /\ ret.err = ErrEmpty <=> Registered = {}
          /\ ret.err = ErrEmpty => ret.node = NIL
          /\ Registered # {} => (ret.err = NoError /\ ret.node # NIL)

\* C8 witness: GetNode returned the empty-ring error on a ring whose
\* registry is empty while circle still holds positions of failed Adds.
C8_Witness ==
    /\ call.op = "GetNode" /\ ret.err = ErrEmpty
    /\ Registered = {}
    /\ Orphans # {}

\* Remove of a node whose key is not registered returns the node-not-found
\* error and changes nothing, and only then.
RemoveAbsentFails ==
    (call.op = "Remove" /\ call.node # NIL) =>
        /\ ~Has(before.nodes, Key(call.node)) <=> ret.err = ErrNotExist
        /\ ret.err = ErrNotExist => Ring = before

\* A Remove of the node that the call just before removed successfully
\* returns the node-not-found error and changes nothing.
SecondRemoveFails ==
    (/\ call.op = "Remove" /\ ret.err = NoError
     /\ call'.op = "Remove" /\ call'.node = call.node)
        => (/\ ret'.err = ErrNotExist
            /\ hashSortedNodes' = hashSortedNodes
            /\ circle' = circle
            /\ nodes' = nodes)

\* C9: Remove of a node whose key is not registered (never added, removed,
\* or left by a failed Add) returns the node-not-found error and leaves
\* hashSortedNodes, circle and nodes unchanged; so does a second Remove of a
\* node directly after a successful one.
C9_RemoveAbsent == []RemoveAbsentFails /\ [][SecondRemoveFails]_vars

\* C9 witness: Remove returned the node-not-found error for a key that is
\* not registered although circle holds a position a failed Add of that key
\* left.
C9_Witness ==
    /\ call.op = "Remove" /\ ret.err = ErrNotExist
    /\ \E p \in Orphans : circle[p] = Key(call.node)

\* C10: Add and AddWithVirtualNode return an invalid-argument error exactly
\* when the node is nil or the count is below 1, and then change nothing;
\* Add(node) returns and does what AddWithVirtualNode(node, 1) does.
C10_InvalidArgument ==
    /\ IsAdd(call) =>
          /\ (call.node = NIL \/ call.count < 1)
                <=> ret.err \in {ErrNodeNil, ErrCount}
          /\ call.node = NIL <=> ret.err = ErrNodeNil
          /\ ret.err \in {ErrNodeNil, ErrCount} => Ring = before
    /\ call.op = "Add" =>
          LET r == AddWithVirtualNodeResult(before.hashSortedNodes,
                                            before.circle, before.nodes,
                                            call.node, 1)
          IN  Ring = RingOf(r) /\ ret.err = r.err

\* C10 witness: AddWithVirtualNode was called on a ring holding a node, with
\* a node that is not registered and a count below 1, and returned the
\* invalid-count error.
C10_Witness ==
    /\ call.op = "AddWithVirtualNode"
    /\ call.node # NIL /\ call.count < 1
    /\ ret.err = ErrCount
    /\ Registered # {} /\ ~Has(nodes, Key(call.node))

(***************************************************************************)
(* Properties of the calls, continued.                                     *)
(***************************************************************************)
\* The last call was an Add, AddWithVirtualNode or Remove.
IsMutation(c) == IsAdd(c) \/ c.op = "Remove"
\* What GetNode(key) returned in the ring the last call began with.
ResolveBefore(key) ==
    GetNodeResult(before.hashSortedNodes, before.circle, before.nodes, key)

\* GetNode changes none of the three structures and returns what the ring
\* it ran on resolves its key to.
GetNodeReadsOnly ==
    call.op = "GetNode" => (Ring = before /\ ret = Resolve(call.key))

\* A call other than a successful Add, AddWithVirtualNode or Remove leaves
\* every key's result as it was before the call.
OwnersKeptWithoutMutation ==
    ~(IsMutation(call) /\ ret.err = NoError)
        => \A k \in LookupKeys : Resolve(k) = ResolveBefore(k)

\* C13: GetNode changes none of hashSortedNodes, circle and nodes, and as
\* long as no Add or Remove succeeds every GetNode(k) returns the same node
\* for the same k.
C13_GetNodeDeterministic ==
    GetNodeReadsOnly /\ OwnersKeptWithoutMutation

\* C13 witness: GetNode returned a node from a ring of at least two
\* positions after a failed Add had changed circle.
C13_Witness ==
    /\ call.op = "GetNode" /\ ret.err = NoError
    /\ Len(hashSortedNodes) >= 2
    /\ Orphans # {}

\* C14: the keys of circle are exactly the values of hashSortedNodes, and
\* every key circle points to is registered.
C14_PositionMapInvariant ==
    /\ DOMAIN circle = Range(hashSortedNodes)
    /\ \A p \in DOMAIN circle : Has(nodes, circle[p])

RECURSIVE SumOfReplicas(_, _)
SumOfReplicas(ns, keys) ==
    IF keys = {} THEN 0
    ELSE LET k == CHOOSE x \in keys : TRUE
         IN  Len(ns[k].virtualNodes) + SumOfReplicas(ns, keys \ {k})

\* A successful Add registers as many positions as the count it was given,
\* and an entry stays as it is until its node is removed.
ReplicaCountKept ==
    /\ (IsAdd(call) /\ ret.err = NoError) =>
          Len(nodes[Key(call.node)].virtualNodes) = call.count
    /\ \A k \in DOMAIN nodes \cap DOMAIN before.nodes :
          nodes[k] = before.nodes[k]

\* C15: hashSortedNodes is strictly ascending, its length is the sum of the
\* replica counts of the registered nodes, and a successful Remove deletes
\* from it exactly the positions of the removed node.
C15_PositionIndexInvariant ==
    /\ \A i \in 1..(Len(hashSortedNodes) - 1) :
          hashSortedNodes[i] < hashSortedNodes[i + 1]
    /\ Len(hashSortedNodes) = SumOfReplicas(nodes, DOMAIN nodes)
    /\ ReplicaCountKept
    /\ (call.op = "Remove" /\ ret.err = NoError) =>
          LET gone == Range(before.nodes[Key(call.node)].virtualNodes)
              Stays(p) == p \notin gone
          IN  /\ hashSortedNodes = SelectSeq(before.hashSortedNodes, Stays)
              /\ Len(hashSortedNodes) =
                     Len(before.hashSortedNodes) - Cardinality(gone)

\* C15 witness: Remove took the MaxVirtual positions of a node out of an
\* index in which a position of another node lay between them.
C15_Witness ==
    /\ call.op = "Remove" /\ ret.err = NoError
    /\ LET gone == Range(before.nodes[Key(call.node)].virtualNodes)
       IN  /\ Cardinality(gone) = MaxVirtual
           /\ \E p \in Range(hashSortedNodes) :
                 \E lo, hi \in gone : lo < p /\ p < hi

\* C16: every registered node holds as many positions as its replica count,
\* pairwise distinct, each once in hashSortedNodes, mapped by circle to the
\* node's own key, and in no other node's list.
C16_RingEntryInvariant ==
    /\ (IsAdd(call) /\ ret.err = NoError) =>
          Len(nodes[Key(call.node)].virtualNodes) = call.count
    /\ \A k \in DOMAIN nodes :
          LET vn == nodes[k].virtualNodes
          IN  /\ Key(nodes[k].node) = k
              /\ Len(vn) >= 1
              /\ \A i, j \in 1..Len(vn) : i # j => vn[i] # vn[j]
              /\ \A p \in Range(vn) :
                    /\ Cardinality({ i \in 1..Len(hashSortedNodes) :
                                       hashSortedNodes[i] = p }) = 1
                    /\ Has(circle, p) /\ circle[p] = k
                    /\ \A k2 \in DOMAIN nodes \ {k} :
                          p \notin Range(nodes[k2].virtualNodes)

\* C16 witness: two nodes are registered, one with MaxVirtual positions,
\* beside a position a failed Add left in circle.
C16_Witness ==
    /\ Cardinality(DOMAIN nodes) >= 2
    /\ \E k \in DOMAIN nodes : Len(nodes[k].virtualNodes) = MaxVirtual
    /\ Orphans # {}

\* The j-th candidate position of replica i of a node.
Candidate(node, i, j) == hashKey(virtualKeyString(node, i, j))

\* The positions vn were chosen by the retry rule in a circle whose keys
\* were taken: replica i has the first of its candidates 0, 1, 2 that is
\* neither taken nor chosen for an earlier replica.
ChosenByRule(taken, node, vn) ==
    \A i \in 1..Len(vn) :
       LET occupied == taken \cup { vn[m] : m \in 1..(i - 1) }
       IN  \E j \in 0..2 :
              /\ vn[i] = Candidate(node, i - 1, j)
              /\ vn[i] \notin occupied
              /\ \A j2 \in 0..(j - 1) :
                    Candidate(node, i - 1, j2) \in occupied

\* C17: a successful Add gives each replica index, in increasing order, the
\* first of its candidates j = 0, 1, 2 that is not in circle, positions of
\* earlier replicas of the call included, and never a fourth candidate; an
\* Add of a valid new node fails, with the collision error, exactly when
\* some replica index finds its three candidates occupied.
C17_CollisionRetryPolicy ==
    /\ (IsAdd(call) /\ ret.err = NoError) =>
          LET vn == nodes[Key(call.node)].virtualNodes
          IN  /\ Len(vn) = call.count
              /\ ChosenByRule(DOMAIN before.circle, call.node, vn)
              /\ DOMAIN circle = DOMAIN before.circle \cup Range(vn)
    /\ (IsAdd(call) /\ ret.err = ErrCollision) =>
          \E m \in 0..(call.count - 1) :
             \E vn \in [1..m -> 0..(HashMod - 1)] :
                /\ ChosenByRule(DOMAIN before.circle, call.node, vn)
                /\ \A j \in 0..2 :
                      Candidate(call.node, m, j)
                          \in DOMAIN before.circle \cup Range(vn)
                /\ DOMAIN circle = DOMAIN before.circle \cup Range(vn)
    /\ (/\ IsAdd(call) /\ call.node # NIL /\ call.count >= 1
        /\ ~Has(before.nodes, Key(call.node)))
          => ret.err \in {NoError, ErrCollision}

\* C17 witness: an Add succeeded whose second replica skipped its first
\* candidate because the first replica of the same call had taken it.
C17_Witness ==
    /\ IsAdd(call) /\ ret.err = NoError /\ call.count >= 2
    /\ LET vn == nodes[Key(call.node)].virtualNodes
       IN  /\ Candidate(call.node, 1, 0) = vn[1]
           /\ Candidate(call.node, 1, 0) \notin DOMAIN before.circle
           /\ vn[2] # Candidate(call.node, 1, 0)

\* C19: in two rings with the same registry, AddWithVirtualNode(n, v) has the
\* same result, the same positions or the same error, whatever calls led to
\* each; here the two rings are the one before and the one after a call that
\* left the registry as it was.
C19_AddDependsOnRegistryOnly ==
    nodes = before.nodes =>
       \A n \in Nodes, v \in 1..MaxVirtual :
          LET now == AddWithVirtualNodeResult(hashSortedNodes, circle, nodes,
                                              n, v)
              then == AddWithVirtualNodeResult(before.hashSortedNodes,
                                               before.circle, before.nodes,
                                               n, v)
          IN  now.err = then.err /\ now.nodes = then.nodes

\* C20: an Add or Remove that returns an error leaves the result of
\* GetNode(k) as it was, for every key k.
C20_FailedCallKeepsOwners ==
    (IsMutation(call) /\ ret.err # NoError) =>
       \A k \in LookupKeys : Resolve(k) = ResolveBefore(k)

\* C20 witness: an Add failed with the collision error after it had written
\* a position to the circle of a ring that has nodes.
C20_Witness ==
    /\ IsAdd(call) /\ ret.err = ErrCollision
    /\ circle # before.circle
    /\ DOMAIN nodes # {}

(***************************************************************************)
(* Properties of the concurrent callers.                                   *)
(***************************************************************************)
ReaderSection == {"Size", "Position", "Read", "RUnlock"}
WriterSection == {"Exists", "Place", "Append", "Register", "Sort",
                  "Lookup", "DeleteCircle", "DeleteIndex", "Unlock"}

\* What the call of caller p returns when it runs alone on the committed
\* ring.
AloneResult(p) ==
    IF callers[p].op = "Remove"
    THEN RemoveResult(committed.hashSortedNodes, committed.circle,
                      committed.nodes, callers[p].node)
    ELSE AddWithVirtualNodeResult(committed.hashSortedNodes,
                                  committed.circle, committed.nodes,
                                  callers[p].node, callers[p].count)

\* C11: while a GetNode is inside its critical section the ring is as whole
\* calls left it, never partly updated by an Add or Remove; the GetNode
\* returns what that ring resolves its key to, and each Add or Remove takes
\* the ring from one such state to the result of the whole call.
C11_AtomicVisibility ==
    \A p \in Callers :
       /\ callers[p].pc \in ReaderSection => Ring = committed
       /\ At_(p, "RUnlock") =>
             callers[p].ret = GetNodeResult(committed.hashSortedNodes,
                                            committed.circle,
                                            committed.nodes, callers[p].key)
       /\ At_(p, "Unlock") =>
             /\ Ring = RingOf(AloneResult(p))
             /\ callers[p].ret.err = AloneResult(p).err

\* C11 witness: a GetNode waits for the lock while an Add or Remove has
\* updated some but not all of the three structures.
C11_Witness ==
    \E p, q \in Callers :
       /\ At_(p, "RLock")
       /\ callers[q].pc \in {"Append", "Register", "Sort", "DeleteCircle",
                             "DeleteIndex"}
       /\ Ring # committed

\* No two critical sections of Add or Remove are active together, and none
\* together with one of GetNode; the writer inside holds the lock.
MutualExclusion ==
    \A p \in Callers :
       /\ callers[p].pc \in WriterSection =>
             /\ mu.w = p /\ mu.readers = {}
             /\ \A q \in Callers \ {p} :
                   callers[q].pc \notin WriterSection \cup ReaderSection
       /\ callers[p].pc \in ReaderSection => p \in mu.readers

\* The ring is read by a statement of an Add or Remove, and written, only
\* by the caller that holds the write lock before and after the step.
WritesUnderLock ==
    \A p \in Callers :
       (callers'[p] # callers[p] /\ callers[p].pc \in WriterSection) =>
          /\ mu.w = p
          /\ \A q \in Callers \ {p} : callers'[q] = callers[q]
          /\ callers'[p].pc \in WriterSection \/ mu'.w = NoCaller

RingWrittenUnderLock ==
    ring' # ring =>
       \E p \in Callers :
          /\ mu.w = p /\ mu'.w = p /\ mu.readers = {}
          /\ callers[p].pc \in WriterSection
          /\ callers'[p].pc \in WriterSection

\* C12: critical sections of Add and Remove exclude each other and those of
\* GetNode, and the write lock is held from before the first read of the
\* ring until after the last write.
C12_LockDiscipline ==
    /\ []MutualExclusion
    /\ [][WritesUnderLock /\ RingWrittenUnderLock]_vars

\* C12 witness: two GetNode calls are inside their critical sections at the
\* same time.
C12_Witness ==
    /\ \A p \in Callers : callers[p].pc \in ReaderSection
    /\ Cardinality(mu.readers) >= 2

\* A call that has returned holds neither lock.
ReturnedReleased ==
    \A p \in Callers :
       At_(p, "done") => (mu.w # p /\ p \notin mu.readers)

=============================================================================
